---- MODULE Spec2Model ----
(***************************************************************************)
(* Model of the nvim-config compiler (src/src/main.rs): the flag-key       *)
(* parser MapFlags::from_str, the key binding and autocommand renderers,   *)
(* and main's load / aggregate / emit pipeline over the bucket map.        *)
(*                                                                         *)
(* Text is modelled as a sequence of one-character strings, so that        *)
(* splitting, escaping and concatenation are computed character by         *)
(* character.  Option<T> is modelled as a sequence of length at most one:  *)
(* None is <<>> and Some(x) is <<x>>.  A HashMap is a function; the order  *)
(* in which the program iterates it is a permutation of its domain chosen  *)
(* nondeterministically (std's RandomState seeds it per process).          *)
(***************************************************************************)
EXTENDS Integers, Sequences, FiniteSets, TLC

VARIABLES
    files,        \* the config directory listing read_dir yields (the input)
    pc,           \* position of main: load, config, keys, autocmds, settings, emit, done, failed
    idx,          \* index of the next directory entry the load loop handles
    configs,      \* Vec<(Config, String)> built by the load loop
    vimscript,    \* HashMap<Option<String>, Vec<String>>: the buckets
    origin,       \* history: for every bucket line, the document and step that pushed it
    writes,       \* the fs::write calls made so far, in order
    cfg,          \* index in configs of the document being aggregated
    groups_left,  \* key groups of the current document not yet iterated
    ac_idx,       \* index of the next autocommand of the current document
    buckets_left, \* buckets the emit loop has not yet iterated
    run,          \* which execution of the program this is (1 or 2)
    prev,         \* the files the first execution wrote
    arg,          \* argument of the function under test (function specifications)
    ret           \* its result

vars == <<files, pc, idx, configs, vimscript, origin, writes, cfg, groups_left,
          ac_idx, buckets_left, run, prev, arg, ret>>

pipeline_vars == <<files, idx, configs, vimscript, origin, writes, cfg, groups_left,
                   ac_idx, buckets_left, run, prev>>

----------------------------------------------------------------------------
\* Bounds of the model.

\* longest generated flag-key string
MaxKeyLen == 5
\* longest generated key text of a binding
MaxKeyTextLen == 2
\* longest generated command text of a binding
MaxCmdTextLen == 2
\* most cmd entries of a generated autocommand
MaxCmds == 2
\* most files in the config directory
MaxFiles == 2

----------------------------------------------------------------------------
\* Option<T> and text helpers.

None == <<>>

Some(x) == <<x>>

\* all strings over alphabet A of length at most n
StringsUpTo(A, n) == UNION {[1..k -> A] : k \in 0..n}

\* all orders in which a HashMap with key set S can be iterated
Perms(S) == {p \in [1..Cardinality(S) -> S] : \A i, j \in 1..Cardinality(S) : p[i] = p[j] => i = j}

RECURSIVE Flatten(_)
\* concatenation of a sequence of sequences (Iterator::collect::<String>, Vec growth)
Flatten(ss) == IF ss = <<>> THEN <<>> ELSE Head(ss) \o Flatten(Tail(ss))

RECURSIVE join(_, _)
\* [String]::join(sep)
join(ss, sep) ==
    IF ss = <<>> THEN <<>>
    ELSE IF Len(ss) = 1 THEN ss[1]
    ELSE ss[1] \o sep \o join(Tail(ss), sep)

RECURSIVE replace(_, _, _)
\* str::replace(from: char, to: &str)
replace(s, from, to) ==
    IF s = <<>> THEN <<>>
    ELSE (IF Head(s) = from THEN to ELSE <<Head(s)>>) \o replace(Tail(s), from, to)

\* str::split_once at the first occurrence of the delimiter
split_once(s, d) ==
    IF \E i \in 1..Len(s) : s[i] = d
    THEN LET i == CHOOSE i \in 1..Len(s) : s[i] = d /\ \A j \in 1..(i - 1) : s[j] # d
         IN  Some(<<SubSeq(s, 1, i - 1), SubSeq(s, i + 1, Len(s))>>)
    ELSE None

\* char::to_ascii_lowercase: only A-Z are changed
AsciiLower ==
    [c \in {"A","B","C","D","E","F","G","H","I","J","K","L","M","N","O","P","Q","R",
            "S","T","U","V","W","X","Y","Z"} |->
        CASE c = "A" -> "a" [] c = "B" -> "b" [] c = "C" -> "c" [] c = "D" -> "d"
          [] c = "E" -> "e" [] c = "F" -> "f" [] c = "G" -> "g" [] c = "H" -> "h"
          [] c = "I" -> "i" [] c = "J" -> "j" [] c = "K" -> "k" [] c = "L" -> "l"
          [] c = "M" -> "m" [] c = "N" -> "n" [] c = "O" -> "o" [] c = "P" -> "p"
          [] c = "Q" -> "q" [] c = "R" -> "r" [] c = "S" -> "s" [] c = "T" -> "t"
          [] c = "U" -> "u" [] c = "V" -> "v" [] c = "W" -> "w" [] c = "X" -> "x"
          [] c = "Y" -> "y" [] c = "Z" -> "z"]

to_ascii_lowercase(s) ==
    [i \in 1..Len(s) |-> IF s[i] \in DOMAIN AsciiLower THEN AsciiLower[s[i]] ELSE s[i]]

----------------------------------------------------------------------------
\* MapFlags::from_str.

MapFlag == {"Insert", "Normal", "Visual", "Leader", "Command", "Recursive"}

\* the flag arms of the match on the character
FlagOfChar ==
    [c \in {"i", "n", "v", "l", "c", "r"} |->
        CASE c = "i" -> "Insert" [] c = "n" -> "Normal" [] c = "v" -> "Visual"
          [] c = "l" -> "Leader" [] c = "c" -> "Command" [] c = "r" -> "Recursive"]

ErrDuplicate == "Duplicate filetype flag not supported"

ErrMissing == "Filetype flag only supported when filetype is given"

ErrUnsupported == "Unsuported flag for Mapping"

Ok(v) == [ok |-> TRUE, val |-> v, err |-> ""]

Err(e) == [ok |-> FALSE, val |-> <<>>, err |-> e]

\* the arms swapped: the missing-source arm is tried before the duplicate arm
FileTypeArmMissingFirst(label, file_type) ==
    IF label # None /\ file_type = None
    THEN LET sp == split_once(label[1], "_")
         IN  IF sp # None
             THEN [bail |-> "", file_type |-> Some(sp[1][1]), label |-> Some(sp[1][2])]
             ELSE [bail |-> "", file_type |-> Some(label[1]), label |-> None]
    ELSE IF label = None
         THEN [bail |-> ErrMissing, file_type |-> file_type, label |-> label]
         ELSE [bail |-> ErrDuplicate, file_type |-> file_type, label |-> label]

\* the label is not cleared when the remainder holds no further separator
FileTypeArmKeepsLabel(label, file_type) ==
    IF label # None /\ file_type = None
    THEN LET sp == split_once(label[1], "_")
         IN  IF sp # None
             THEN [bail |-> "", file_type |-> Some(sp[1][1]), label |-> Some(sp[1][2])]
             ELSE [bail |-> "", file_type |-> Some(label[1]), label |-> label]
    ELSE IF file_type # None
         THEN [bail |-> ErrDuplicate, file_type |-> file_type, label |-> label]
         ELSE [bail |-> ErrMissing, file_type |-> file_type, label |-> label]

\* the 'f' arm: match (label, file_type)
FileTypeArm(label, file_type) ==
    IF label # None /\ file_type = None
    THEN LET sp == split_once(label[1], "_")
         IN  IF sp # None
             THEN [bail |-> "", file_type |-> Some(sp[1][1]), label |-> Some(sp[1][2])]
             ELSE [bail |-> "", file_type |-> Some(label[1]), label |-> None]
    ELSE IF file_type # None
         THEN [bail |-> ErrDuplicate, file_type |-> file_type, label |-> label]
         ELSE [bail |-> ErrMissing, file_type |-> file_type, label |-> label]

RECURSIVE ScanFlags(_, _, _, _)
\* the loop over the lower-cased flag characters
ScanFlags(chars, flags, label, file_type) ==
    IF chars = <<>>
    THEN Ok([flags |-> flags, label |-> label, file_type |-> file_type])
    ELSE LET c == Head(chars) IN
         IF c \in DOMAIN FlagOfChar
         THEN ScanFlags(Tail(chars), flags \cup {FlagOfChar[c]}, label, file_type)
         ELSE IF c = "f"
              THEN LET a == FileTypeArm(label, file_type) IN
                   IF a.bail # "" THEN Err(a.bail)
                   ELSE ScanFlags(Tail(chars), flags, a.label, a.file_type)
              ELSE Err(ErrUnsupported)

from_str(s) ==
    LET sp == split_once(s, "_") IN
    IF sp # None
    THEN ScanFlags(to_ascii_lowercase(sp[1][1]), {}, Some(sp[1][2]), None)
    ELSE ScanFlags(to_ascii_lowercase(s), {}, None, None)

----------------------------------------------------------------------------
\* Key binding rendering (the body of the loop over kbs).

Lit_LEADER == <<"<","L","E","A","D","E","R",">">>

Lit_CMD == <<"<","C","M","D",">">>

Lit_CR == <<"<","C","R",">">>

Lit_map == <<"m","a","p">>

Lit_noremap == <<"n","o","r","e","m","a","p">>

Lit_silent == <<" ","<","s","i","l","e","n","t",">"," ">>

Lit_escaped_pipe == <<"\\","|">>

\* char::is_ascii_whitespace: space, tab, line feed, form feed, carriage return
IsAsciiWhitespace(c) == c \in {" ", "\t", "\n", "\f", "\r"}

RECURSIVE SplitTokens(_, _)
\* the tokens of s between runs of ASCII whitespace; cur is the token being read
SplitTokens(s, cur) ==
    IF s = <<>> THEN (IF cur = <<>> THEN <<>> ELSE <<cur>>)
    ELSE IF IsAsciiWhitespace(Head(s))
         THEN (IF cur = <<>> THEN <<>> ELSE <<cur>>) \o SplitTokens(Tail(s), <<>>)
         ELSE SplitTokens(Tail(s), Append(cur, Head(s)))

\* str::split_ascii_whitespace
split_ascii_whitespace(s) == SplitTokens(s, <<>>)

\* only the first mode present in the flags is emitted (an else-if chain)
RenderBindingFirstModeOnly(flags, key, binding) ==
    LET cmd  == IF "Recursive" \in flags THEN Lit_map ELSE Lit_noremap
        key1 == IF "Leader" \in flags THEN Lit_LEADER \o key ELSE key
        b1   == replace(binding, "|", Lit_escaped_pipe)
        b2   == IF "Command" \in flags THEN Lit_CMD \o b1 \o Lit_CR ELSE b1
        line == cmd \o Lit_silent \o Flatten(split_ascii_whitespace(key1)) \o <<" ">> \o b2
    IN  IF "Insert" \in flags THEN << <<"i">> \o line >>
        ELSE IF "Normal" \in flags THEN << <<"n">> \o line >>
        ELSE IF "Visual" \in flags THEN << <<"v">> \o line >>
        ELSE <<>>

\* the binding is used as given: its pipes are not escaped
RenderBindingNoEscape(flags, key, binding) ==
    LET cmd  == IF "Recursive" \in flags THEN Lit_map ELSE Lit_noremap
        key1 == IF "Leader" \in flags THEN Lit_LEADER \o key ELSE key
        b2   == IF "Command" \in flags THEN Lit_CMD \o binding \o Lit_CR ELSE binding
        line == cmd \o Lit_silent \o Flatten(split_ascii_whitespace(key1)) \o <<" ">> \o b2
    IN  (IF "Insert" \in flags THEN << <<"i">> \o line >> ELSE <<>>)
        \o (IF "Normal" \in flags THEN << <<"n">> \o line >> ELSE <<>>)
        \o (IF "Visual" \in flags THEN << <<"v">> \o line >> ELSE <<>>)

\* the lines pushed for one (key, binding) pair of a group with these flags
RenderBinding(flags, key, binding) ==
    LET cmd  == IF "Recursive" \in flags THEN Lit_map ELSE Lit_noremap
        key1 == IF "Leader" \in flags THEN Lit_LEADER \o key ELSE key
        b1   == replace(binding, "|", Lit_escaped_pipe)
        b2   == IF "Command" \in flags THEN Lit_CMD \o b1 \o Lit_CR ELSE b1
        line == cmd \o Lit_silent \o Flatten(split_ascii_whitespace(key1)) \o <<" ">> \o b2
    IN  (IF "Insert" \in flags THEN << <<"i">> \o line >> ELSE <<>>)
        \o (IF "Normal" \in flags THEN << <<"n">> \o line >> ELSE <<>>)
        \o (IF "Visual" \in flags THEN << <<"v">> \o line >> ELSE <<>>)

----------------------------------------------------------------------------
\* Autocommand rendering (the body of the loop over config.auto_commands).

Lit_autocmd == <<"a","u","t","o","c","m","d">>

Lit_buffer == <<"<","b","u","f","f","e","r",">">>

Lit_star == <<"*">>

Lit_silent_bang == <<"s","i","l","e","n","t","!">>

Lit_v_event == <<"v",":","e","v","e","n","t",".">>

Lit_is == <<" ","i","s"," ","'">>

Lit_and == <<" ","&","&"," ">>

Lit_lua == <<"l","u","a"," ">>

Lit_if == <<"i","f"," ">>

Lit_execute == <<" ","|"," ","e","x","e","c","u","t","e"," ","'">>

Lit_endif == <<"'"," ","|"," ","e","n","d","i","f">>

Lit_escaped_quote == <<"\\","'">>

\* matching.unwrap_or_else(..)
MatchPattern(ac) ==
    IF ac.matching # None THEN ac.matching[1]
    ELSE IF ac.file_type # None THEN Lit_buffer ELSE Lit_star

\* the condition built from event.iter(); order is the iteration order of the map
EventCondition(ac, order) ==
    join([i \in 1..Len(order) |->
              Lit_v_event \o order[i] \o Lit_is \o ac.event[order[i]] \o <<"'">>],
         Lit_and)

\* the lua statements are chained before the cmd statements
StatementsLuaFirst(ac) == [i \in 1..Len(ac.lua) |-> Lit_lua \o ac.lua[i]] \o ac.cmd

\* cmd.into_iter().chain(lua.iter().map(..))
Statements(ac) == ac.cmd \o [i \in 1..Len(ac.lua) |-> Lit_lua \o ac.lua[i]]

\* one autocmd line for one statement
AutoCommandLine(ac, condition, stmt) ==
    LET triggers == join(ac.triggers, <<",">>)
        matching == MatchPattern(ac)
        silent   == IF ac.silent THEN Lit_silent_bang ELSE <<>>
        head     == Lit_autocmd \o <<" ">> \o triggers \o <<" ">> \o matching
                    \o <<" ">> \o silent \o <<" ">>
    IN  IF condition = <<>>
        THEN head \o stmt
        ELSE head \o Lit_if \o condition \o Lit_execute
             \o replace(stmt, "'", Lit_escaped_quote) \o Lit_endif

\* the lines pushed for one autocommand
RenderAutoCommand(ac, order) ==
    LET condition == EventCondition(ac, order)
        stmts     == Statements(ac)
    IN  [i \in 1..Len(stmts) |-> AutoCommandLine(ac, condition, stmts[i])]

----------------------------------------------------------------------------
\* Documents, deserialization and the bucket map.

\* str::to_lowercase; the generated extensions are ASCII text
to_lowercase(s) == to_ascii_lowercase(s)

\* the extensions the load loop accepts, after to_lowercase
ConfigExtensions == {<<"y","a","m","l">>, <<"y","m","l">>, <<"t","o","m","l">>}

Lit_file_header == <<"\n","\n","\""," ","F","i","l","e",":"," ">>

Lit_keybindings == <<"\n","\""," ","K","e","y","b","i","n","d","i","n","g","s",":">>

Lit_comment == <<"\""," ">>

Lit_set == <<"s","e","t"," ">>

Lit_let == <<"l","e","t"," ">>

Lit_yes == <<"y","e","s">>

Lit_no == <<"n","o">>

Lit_plugin_config == <<"p","l","u","g","i","n","/","c","o","n","f","i","g",".","v","i","m">>

Lit_ftplugin == <<"f","t","p","l","u","g","i","n","/">>

Lit_config_vim == <<"_","c","o","n","f","i","g",".","v","i","m">>

Digits == <<"0","1","2","3","4","5","6","7","8","9">>

RECURSIVE Decimal(_)
\* Display of an i64
Decimal(n) ==
    IF n < 0 THEN <<"-">> \o Decimal(0 - n)
    ELSE IF n < 10 THEN <<Digits[n + 1]>>
    ELSE Decimal(n \div 10) \o <<Digits[(n % 10) + 1]>>

\* impl Display for Value
DisplayValue(v) ==
    CASE v.tag = "Int" -> Decimal(v.v)
      [] v.tag = "String" -> <<"\"">> \o v.v \o <<"\"">>
      [] v.tag = "Bool" -> IF v.v THEN Lit_yes ELSE Lit_no

\* HashMap::insert
Insert(m, k, v) == [x \in DOMAIN m \cup {k} |-> IF x = k THEN v ELSE m[x]]

RECURSIVE DeserializeKeys(_, _)
\* the keys map is filled entry by entry; every key goes through from_str
DeserializeKeys(raw, acc) ==
    IF raw = <<>> THEN Ok(acc)
    ELSE LET r == from_str(raw[1][1]) IN
         IF ~r.ok THEN Err(r.err)
         ELSE DeserializeKeys(Tail(raw), Insert(acc, r.val, raw[1][2]))

\* serde_yaml::from_reader / toml::from_str into Config
Deserialize(body) ==
    IF body.kind = "malformed" THEN Err("Failed to parse file")
    ELSE LET k == DeserializeKeys(body.keys, <<>>) IN
         IF ~k.ok THEN Err(k.err)
         ELSE Ok([keys |-> k.val, auto_commands |-> body.auto_commands, set |-> body.set,
                  set_value |-> body.set_value, let |-> body.let])

\* every access inserts a fresh Vec, dropping the lines the bucket held
mut_or_default_reset(map, key) == Insert(map, key, <<>>)

\* the map after mut_or_default(map, key): the key is present, its lines kept
mut_or_default(map, key) ==
    IF key \notin DOMAIN map THEN Insert(map, key, <<>>) ELSE map

\* the bucket map after the lines are pushed to the bucket of key
Pushed(map, key, lines) ==
    LET m == mut_or_default(map, key) IN [m EXCEPT ![key] = @ \o lines]

\* the history after tags are recorded for the bucket of key
Recorded(hist, key, tags) ==
    IF key \in DOMAIN hist THEN [hist EXCEPT ![key] = @ \o tags]
    ELSE Insert(hist, key, tags)

Tag(doc, kind, ft, cmd) == [doc |-> doc, kind |-> kind, ft |-> ft, cmd |-> cmd]

\* the iteration orders of the suffix map of one binding
MappingOrders(b) == IF b.tag = "Mapping" THEN {<<>>} ELSE Perms(DOMAIN b.map)

\* one iteration order for every binding of a key map
SuffixOrders(km) ==
    {so \in [DOMAIN km -> UNION {MappingOrders(km[k]) : k \in DOMAIN km}] :
        \A k \in DOMAIN km : so[k] \in MappingOrders(km[k])}

\* match binding { Mapping | PrefixedMappings }
ExpandMapping(key, b, order) ==
    IF b.tag = "Mapping" THEN << <<key, b.cmd>> >>
    ELSE [i \in 1..Len(order) |-> <<key \o order[i], b.map[order[i]]>>]

\* kbs: the (key, binding) pairs of a group, keys iterated in order ko
ExpandGroup(km, ko, so) ==
    Flatten([i \in 1..Len(ko) |-> ExpandMapping(ko[i], km[ko[i]], so[ko[i]])])

\* an autocommand with a file type is routed to that file type's bucket
AutoCommandScopeByFileType(ac) == ac.file_type

\* the bucket an autocommand's lines go to: always the global one
AutoCommandScope(ac) == None

\* fs::write target of a bucket
OutputPath(scope) ==
    IF scope = None THEN Lit_plugin_config ELSE Lit_ftplugin \o scope[1] \o Lit_config_vim

\* vimscript.join("\n")
Payload(lines) == join(lines, <<"\n">>)

----------------------------------------------------------------------------
\* main: the load loop, the aggregation loop and the emit loop.

\* a key that fails to parse makes the document be skipped instead of failing the run
LoadFileBestEffort ==
    /\ pc = "load" /\ idx <= Len(files)
    /\ LET f == files[idx]
           r == Deserialize(f.body)
       IN  IF f.ext = None \/ to_lowercase(f.ext[1]) \notin ConfigExtensions
           THEN UNCHANGED <<configs, pc>>
           ELSE IF r.ok
                THEN /\ configs' = Append(configs, [config |-> r.val, filename |-> f.name])
                     /\ pc' = pc
                ELSE IF f.body.kind = "malformed"
                     THEN pc' = "failed" /\ UNCHANGED configs
                     ELSE UNCHANGED <<configs, pc>>
    /\ idx' = idx + 1
    /\ UNCHANGED <<files, vimscript, origin, writes, cfg, groups_left, ac_idx,
                   buckets_left, run, prev, arg, ret>>

\* one iteration of `for config_file in config_files`
LoadFile ==
    /\ pc = "load" /\ idx <= Len(files)
    /\ LET f == files[idx]
           r == Deserialize(f.body)
       IN  IF f.ext = None \/ to_lowercase(f.ext[1]) \notin ConfigExtensions
           THEN UNCHANGED <<configs, pc>>
           ELSE IF r.ok
                THEN /\ configs' = Append(configs, [config |-> r.val, filename |-> f.name])
                     /\ pc' = pc
                ELSE pc' = "failed" /\ UNCHANGED configs
    /\ idx' = idx + 1
    /\ UNCHANGED <<files, vimscript, origin, writes, cfg, groups_left, ac_idx,
                   buckets_left, run, prev, arg, ret>>

\* the load loop ends; `vimscript` is created empty
LoadDone ==
    /\ pc = "load" /\ idx > Len(files)
    /\ pc' = "config" /\ cfg' = 1
    /\ UNCHANGED <<files, idx, configs, vimscript, origin, writes, groups_left, ac_idx,
                   buckets_left, run, prev, arg, ret>>

\* start of one iteration of `for (config, filename) in configs`: the two header lines
BeginConfig ==
    /\ pc = "config" /\ cfg <= Len(configs)
    /\ vimscript' = Pushed(vimscript, None,
                           <<Lit_file_header \o configs[cfg].filename, Lit_keybindings>>)
    /\ origin' = Recorded(origin, None,
                          <<Tag(cfg, "header", None, None), Tag(cfg, "marker", None, None)>>)
    /\ groups_left' = DOMAIN configs[cfg].config.keys
    /\ ac_idx' = 1
    /\ pc' = "doc"
    /\ UNCHANGED <<files, idx, configs, writes, cfg, buckets_left, run, prev, arg, ret>>

\* the lines of one key group: its label comment, then its bindings
GroupLines(g, kbs) ==
    (IF g.label # None THEN <<Lit_comment \o g.label[1]>> ELSE <<>>)
    \o Flatten([i \in 1..Len(kbs) |-> RenderBinding(g.flags, kbs[i][1], kbs[i][2])])

GroupTags(doc, g, kbs) ==
    (IF g.label # None THEN <<Tag(doc, "label", g.file_type, None)>> ELSE <<>>)
    \o Flatten([i \in 1..Len(kbs) |->
                   [j \in 1..Len(RenderBinding(g.flags, kbs[i][1], kbs[i][2])) |->
                       Tag(doc, "binding", g.file_type, Some(kbs[i][2]))]])

\* one iteration of `for (MapFlags {..}, k) in config.keys`
KeyGroup ==
    /\ pc = "doc" /\ groups_left # {}
    /\ \E g \in groups_left :
         LET km == configs[cfg].config.keys[g] IN
         \E ko \in Perms(DOMAIN km) : \E so \in SuffixOrders(km) :
           LET kbs == ExpandGroup(km, ko, so) IN
           /\ vimscript' = Pushed(vimscript, g.file_type, GroupLines(g, kbs))
           /\ origin' = Recorded(origin, g.file_type, GroupTags(cfg, g, kbs))
           /\ groups_left' = groups_left \ {g}
    /\ UNCHANGED <<files, pc, idx, configs, writes, cfg, ac_idx, buckets_left, run, prev,
                   arg, ret>>

\* one iteration of `for AutoCommand {..} in config.auto_commands`
AutoCommand ==
    /\ pc = "doc" /\ groups_left = {}
    /\ ac_idx <= Len(configs[cfg].config.auto_commands)
    /\ LET ac == configs[cfg].config.auto_commands[ac_idx] IN
       \E order \in Perms(DOMAIN ac.event) :
         LET lines == RenderAutoCommand(ac, order) IN
         /\ vimscript' = Pushed(vimscript, AutoCommandScope(ac), lines)
         /\ origin' = Recorded(origin, AutoCommandScope(ac),
                               [i \in 1..Len(lines) |->
                                   Tag(cfg, "autocmd", None,
                                       Some(IF i <= Len(ac.cmd) THEN ac.cmd[i]
                                            ELSE ac.lua[i - Len(ac.cmd)]))])
    /\ ac_idx' = ac_idx + 1
    /\ UNCHANGED <<files, pc, idx, configs, writes, cfg, groups_left, buckets_left, run,
                   prev, arg, ret>>

\* the set, set_value and let loops, which end the iteration for this document
Settings ==
    /\ pc = "doc" /\ groups_left = {}
    /\ ac_idx > Len(configs[cfg].config.auto_commands)
    /\ LET c == configs[cfg].config IN
       \E svo \in Perms(DOMAIN c.set_value) : \E lo \in Perms(DOMAIN c.let) :
         /\ vimscript' =
              Pushed(vimscript, None,
                     [i \in 1..Len(c.set) |-> Lit_set \o c.set[i]]
                     \o [i \in 1..Len(svo) |->
                            Lit_set \o svo[i] \o <<"=">> \o DisplayValue(c.set_value[svo[i]])]
                     \o [i \in 1..Len(lo) |->
                            Lit_let \o lo[i] \o <<"=">> \o DisplayValue(c.let[lo[i]])])
         /\ origin' =
              Recorded(origin, None,
                       [i \in 1..Len(c.set) |-> Tag(cfg, "set", None, None)]
                       \o [i \in 1..Len(svo) |-> Tag(cfg, "set_value", None, None)]
                       \o [i \in 1..Len(lo) |-> Tag(cfg, "let", None, None)])
    /\ cfg' = cfg + 1
    /\ pc' = "config"
    /\ UNCHANGED <<files, idx, configs, writes, groups_left, ac_idx, buckets_left, run,
                   prev, arg, ret>>

\* the aggregation loop ends; the emit loop starts over the bucket map
AggregateDone ==
    /\ pc = "config" /\ cfg > Len(configs)
    /\ pc' = "emit"
    /\ buckets_left' = DOMAIN vimscript
    /\ UNCHANGED <<files, idx, configs, vimscript, origin, writes, cfg, groups_left,
                   ac_idx, run, prev, arg, ret>>

\* buckets that hold no line are not written
EmitNonEmptyOnly ==
    /\ pc = "emit" /\ buckets_left # {}
    /\ \E scope \in buckets_left :
         /\ writes' = IF vimscript[scope] = <<>> THEN writes
                      ELSE Append(writes, [scope |-> scope, path |-> OutputPath(scope),
                                           contents |-> Payload(vimscript[scope])])
         /\ buckets_left' = buckets_left \ {scope}
    /\ UNCHANGED <<files, pc, idx, configs, vimscript, origin, cfg, groups_left, ac_idx,
                   run, prev, arg, ret>>

\* one iteration of `for vimscript in vimscript`: one fs::write
Emit ==
    /\ pc = "emit" /\ buckets_left # {}
    /\ \E scope \in buckets_left :
         /\ writes' = Append(writes, [scope |-> scope, path |-> OutputPath(scope),
                                      contents |-> Payload(vimscript[scope])])
         /\ buckets_left' = buckets_left \ {scope}
    /\ UNCHANGED <<files, pc, idx, configs, vimscript, origin, cfg, groups_left, ac_idx,
                   run, prev, arg, ret>>

\* main returns Ok(())
EmitDone ==
    /\ pc = "emit" /\ buckets_left = {}
    /\ pc' = "done"
    /\ UNCHANGED <<files, idx, configs, vimscript, origin, writes, cfg, groups_left,
                   ac_idx, buckets_left, run, prev, arg, ret>>

\* the program is started again on the same config directory
Rerun ==
    /\ pc = "done" /\ run = 1
    /\ run' = 2
    /\ prev' = {[path |-> writes[i].path, contents |-> writes[i].contents] :
                    i \in 1..Len(writes)}
    /\ pc' = "load" /\ idx' = 1 /\ configs' = <<>>
    /\ vimscript' = <<>> /\ origin' = <<>> /\ writes' = <<>>
    /\ cfg' = 0 /\ groups_left' = {} /\ ac_idx' = 1 /\ buckets_left' = {}
    /\ UNCHANGED <<files, arg, ret>>

----------------------------------------------------------------------------
\* The generated config directories: up to MaxFiles files drawn from FileUniverse.

Txt_rust == <<"r","u","s","t">>

Txt_BufEnter == <<"B","E">>

Txt_BufLeave == <<"B","L">>

Txt_pattern == <<"*",".","r","s">>

Txt_ev_key1 == <<"o","p">>

Txt_ev_val1 == <<"y">>

Txt_ev_key2 == <<"r","g">>

Txt_ev_val2 == <<"+">>

Key_nlc_MyLabel == <<"n","l","c","_","M","y","L","a","b","e","l">>

Key_nf_rust_Comment == <<"n","f","_","r","u","s","t","_","C","o","m","m","e","n","t">>

Key_nf_rust == <<"n","f","_","r","u","s","t">>

Key_if_rust == <<"i","f","_","r","u","s","t">>

Key_nff_x == <<"n","f","f","_","x">>

Key_z == <<"z">>

Mapping(cmd) == [tag |-> "Mapping", cmd |-> cmd, map |-> <<>>]

PrefixedMappings(map) == [tag |-> "PrefixedMappings", cmd |-> <<>>, map |-> map]

ValueInt(n) == [tag |-> "Int", v |-> n]

ValueString(s) == [tag |-> "String", v |-> s]

ValueBool(b) == [tag |-> "Bool", v |-> b]

Document(keys, acs, set, set_value, let) ==
    [kind |-> "doc", keys |-> keys, auto_commands |-> acs, set |-> set,
     set_value |-> set_value, let |-> let]

Malformed == [kind |-> "malformed"]

\* a conditional autocommand: two triggers, two event entries, file_type set
Ac_conditional ==
    [triggers |-> <<Txt_BufEnter, Txt_BufLeave>>, cmd |-> << <<"e","'","q">> >>,
     lua |-> << <<"g","|","h">> >>, matching |-> None,
     event |-> (Txt_ev_key1 :> Txt_ev_val1) @@ (Txt_ev_key2 :> Txt_ev_val2),
     silent |-> TRUE, file_type |-> Some(Txt_rust)]

\* an unconditional autocommand whose command holds a pipe
Ac_plain ==
    [triggers |-> <<Txt_BufEnter>>, cmd |-> << <<"x","|","y">> >>, lua |-> <<>>,
     matching |-> Some(Txt_pattern), event |-> <<>>, silent |-> FALSE, file_type |-> None]

\* a document that sets nothing
Doc_empty == Document(<<>>, <<>>, <<>>, <<>>, <<>>)

\* a labelled global group, a labelled rust group with two suffixes, a conditional
\* autocommand, and set / set_value / let entries
Doc_rich ==
    Document(<< <<Key_nlc_MyLabel, <<"k">> :> Mapping(<<"a","|","b">>)>>,
                <<Key_nf_rust_Comment,
                  <<"g">> :> PrefixedMappings((<<"c">> :> <<"x">>) @@ (<<"u">> :> <<"y","|","z">>))>> >>,
             <<Ac_conditional>>,
             << <<"n","u">> >>,
             (<<"t","s">> :> ValueInt(4)) @@ (<<"f","o">> :> ValueString(<<"q">>)),
             <<"m","l">> :> ValueBool(TRUE))

\* two groups of the rust scope, two spellings of one global group, an
\* unconditional autocommand
Doc_groups ==
    Document(<< <<Key_if_rust, <<"j">> :> Mapping(<<"p">>)>>,
                <<Key_nf_rust, <<"k", " ", "k">> :> Mapping(<<"q">>)>>,
                <<<<"N">>, <<"a">> :> Mapping(<<"o">>)>>,
                <<<<"n">>, <<"b">> :> Mapping(<<"w">>)>> >>,
             <<Ac_plain>>, <<>>, <<>>, <<>>)

\* a group with a file type but no mode and no label, and two let entries
Doc_quiet ==
    Document(<< <<<<"l","f","_","x">>, <<"k">> :> Mapping(<<"a">>)>> >>,
             <<>>, <<>>, <<>>,
             (<<"a">> :> ValueInt(-12)) @@ (<<"b">> :> ValueBool(FALSE)))

\* documents whose last flag key does not parse
Doc_unsupported == Document(<< <<<<"n">>, <<"k">> :> Mapping(<<"a">>)>>,
                               <<Key_z, <<"k">> :> Mapping(<<"a">>)>> >>, <<>>, <<>>, <<>>, <<>>)

Doc_duplicate == Document(<< <<Key_nff_x, <<"k">> :> Mapping(<<"a">>)>> >>,
                          <<>>, << <<"n","u">> >>, <<>>, <<>>)

Doc_missing == Document(<< <<<<"n","f">>, <<"k">> :> Mapping(<<"a">>)>> >>,
                        <<Ac_plain>>, <<>>, <<>>, <<>>)

Ext_yaml == <<"y","a","m","l">>

Ext_YML == <<"Y","M","L">>

Ext_toml == <<"t","o","m","l">>

Ext_txt == <<"t","x","t">>

File(ext, body) == [ext |-> ext, body |-> body]

FileUniverse ==
    {File(Some(Ext_yaml), Doc_empty), File(Some(Ext_YML), Doc_rich),
     File(Some(Ext_toml), Doc_groups), File(Some(Ext_yaml), Doc_quiet),
     File(Some(Ext_toml), Doc_unsupported), File(Some(Ext_yaml), Doc_duplicate),
     File(Some(Ext_YML), Doc_missing), File(Some(Ext_toml), Malformed),
     File(Some(Ext_txt), Malformed), File(None, Malformed)}

\* the name of the i-th directory entry: distinct per entry
FileName(i, ext) ==
    <<Digits[i + 1]>> \o (IF ext = None THEN <<>> ELSE <<".">> \o ext[1])

Init ==
    /\ \E n \in 0..MaxFiles : \E choice \in [1..n -> FileUniverse] :
         files = [i \in 1..n |->
                     [name |-> FileName(i, choice[i].ext), ext |-> choice[i].ext,
                      body |-> choice[i].body]]
    /\ pc = "load" /\ idx = 1 /\ configs = <<>>
    /\ vimscript = <<>> /\ origin = <<>> /\ writes = <<>>
    /\ cfg = 0 /\ groups_left = {} /\ ac_idx = 1 /\ buckets_left = {}
    /\ run = 1 /\ prev = {}
    /\ arg = <<>> /\ ret = <<>>

Next ==
    \/ LoadFile
    \/ LoadDone
    \/ BeginConfig
    \/ KeyGroup
    \/ AutoCommand
    \/ Settings
    \/ AggregateDone
    \/ Emit
    \/ EmitDone

Spec == Init /\ [][Next]_vars

\* two executions of the program on the same directory
NextRerun == Next \/ Rerun

SpecRerun == Init /\ [][NextRerun]_vars

----------------------------------------------------------------------------
\* Specification of from_str alone: the key string is drawn from all strings
\* over ParseAlphabet up to MaxKeyLen and from the documented examples.

ParseAlphabet == {"n", "V", "f", "F", "_", "z"}

Key_nv == <<"n","v">>

Key_Ri == <<"R","i">>

ExampleKeys ==
    {Key_nv, Key_nlc_MyLabel, Key_nf_rust_Comment, Key_nf_rust, Key_if_rust, Key_nff_x,
     Key_z, Key_Ri}

\* the pipeline at rest, for the specifications of a single function
PipelineIdle ==
    /\ files = <<>> /\ idx = 1 /\ configs = <<>>
    /\ vimscript = <<>> /\ origin = <<>> /\ writes = <<>>
    /\ cfg = 0 /\ groups_left = {} /\ ac_idx = 1 /\ buckets_left = {}
    /\ run = 1 /\ prev = {}

InitParse ==
    /\ PipelineIdle
    /\ pc = "call"
    /\ arg \in StringsUpTo(ParseAlphabet, MaxKeyLen) \cup ExampleKeys
    /\ ret = <<>>

ParseKey ==
    /\ pc = "call"
    /\ ret' = from_str(arg)
    /\ pc' = "return"
    /\ UNCHANGED <<arg, pipeline_vars>>

NextParse == ParseKey

SpecParse == InitParse /\ [][NextParse]_vars

----------------------------------------------------------------------------
\* Reference reading of a key string, written from the grammar.

RefLetters ==
    [m \in MapFlag |->
        CASE m = "Insert" -> {"i", "I"} [] m = "Normal" -> {"n", "N"}
          [] m = "Visual" -> {"v", "V"} [] m = "Leader" -> {"l", "L"}
          [] m = "Command" -> {"c", "C"} [] m = "Recursive" -> {"r", "R"}]

RefFileTypeLetters == {"f", "F"}

RefSeps(s) == {i \in 1..Len(s) : s[i] = "_"}

RefFirstSep(s) == CHOOSE i \in RefSeps(s) : \A j \in RefSeps(s) : i <= j

\* the flag sequence F
RefF(s) == IF RefSeps(s) = {} THEN s ELSE SubSeq(s, 1, RefFirstSep(s) - 1)

\* the remainder R (only used when s has a separator)
RefR(s) == SubSeq(s, RefFirstSep(s) + 1, Len(s))

RefFlags(s) == {m \in MapFlag : \E i \in 1..Len(RefF(s)) : RefF(s)[i] \in RefLetters[m]}

RefHasF(s) == \E i \in 1..Len(RefF(s)) : RefF(s)[i] \in RefFileTypeLetters

RefFileType(s) ==
    IF ~RefHasF(s) \/ RefSeps(s) = {} THEN None
    ELSE IF RefSeps(RefR(s)) = {} THEN Some(RefR(s))
    ELSE Some(SubSeq(RefR(s), 1, RefFirstSep(RefR(s)) - 1))

RefLabel(s) ==
    IF RefSeps(s) = {} THEN None
    ELSE IF ~RefHasF(s) THEN Some(RefR(s))
    ELSE IF RefSeps(RefR(s)) = {} THEN None
    ELSE Some(SubSeq(RefR(s), RefFirstSep(RefR(s)) + 1, Len(RefR(s))))

RefParse(s) == [flags |-> RefFlags(s), label |-> RefLabel(s), file_type |-> RefFileType(s)]

Txt_Comment == <<"C","o","m","m","e","n","t">>

Txt_MyLabel == <<"M","y","L","a","b","e","l">>

\* C1: every successful parse equals the reference reading of the key string
\* (flags as a set, compared case-insensitively; file type and label split
\* from the remainder when the flag sequence holds 'f'), and the three
\* documented examples give the documented results.
C1_ParseMatchesReference ==
    pc = "return" =>
        /\ ret.ok => ret.val = RefParse(arg)
        /\ arg = Key_nf_rust_Comment =>
               ret = Ok([flags |-> {"Normal"}, label |-> Some(Txt_Comment),
                         file_type |-> Some(Txt_rust)])
        /\ arg = Key_nf_rust =>
               ret = Ok([flags |-> {"Normal"}, label |-> None, file_type |-> Some(Txt_rust)])
        /\ arg = Key_nlc_MyLabel =>
               ret = Ok([flags |-> {"Normal", "Leader", "Command"},
                         label |-> Some(Txt_MyLabel), file_type |-> None])

\* a parse of a key whose 'f' consumed the whole remainder, with an upper-case flag
C1_Witness ==
    /\ pc = "return" /\ ret.ok
    /\ arg = <<"V", "f", "n", "_", "F">>
    /\ ret.val = [flags |-> {"Visual", "Normal"}, label |-> None, file_type |-> Some(<<"F">>)]

\* the error the leftmost offending character of the flag sequence gives ("" if none)
RefOffence(s, i) ==
    LET F == RefF(s) IN
    IF F[i] \notin (UNION {RefLetters[m] : m \in MapFlag}) \cup RefFileTypeLetters
    THEN ErrUnsupported
    ELSE IF F[i] \in RefFileTypeLetters /\ RefSeps(s) = {} THEN ErrMissing
    ELSE IF F[i] \in RefFileTypeLetters /\ \E j \in 1..(i - 1) : F[j] \in RefFileTypeLetters
    THEN ErrDuplicate
    ELSE ""

RefOffending(s) == {i \in 1..Len(RefF(s)) : RefOffence(s, i) # ""}

\* C2: the parse fails exactly when the flag sequence holds an unsupported
\* character, an 'f' without a separator in the key, or a second 'f'; the
\* leftmost such character decides the error; "nff_x" is a duplicate-file-type
\* error; no successful parse comes from a flag sequence with two 'f'.
C2_ParseFailsExactly ==
    pc = "return" =>
        /\ ret.ok <=> RefOffending(arg) = {}
        /\ ~ret.ok =>
               ret.err = RefOffence(arg, CHOOSE i \in RefOffending(arg) :
                                             \A j \in RefOffending(arg) : i <= j)
        /\ ret.ok =>
               Cardinality({i \in 1..Len(RefF(arg)) : RefF(arg)[i] \in RefFileTypeLetters}) <= 1
        /\ arg = Key_nff_x => ret = Err(ErrDuplicate)
        /\ arg = Key_z => ret = Err(ErrUnsupported)

\* the second 'f' met after the first one consumed the whole remainder
C2_Witness ==
    /\ pc = "return" /\ arg = Key_nff_x /\ ret = Err(ErrDuplicate)

----------------------------------------------------------------------------
\* Specification of the binding renderer alone.  "U+00A0" stands for the
\* no-break space, one character that is whitespace but not ASCII whitespace.

KeyAlphabet == {"k", " ", "\t", "U+00A0"}

CmdAlphabet == {"a", "|", " "}

Txt_k == <<"k">>

Txt_foo == <<"f","o","o">>

InitBinding ==
    /\ PipelineIdle
    /\ pc = "call"
    /\ arg \in [flags : SUBSET MapFlag,
                key : StringsUpTo(KeyAlphabet, MaxKeyTextLen) \cup {Txt_k},
                binding : StringsUpTo(CmdAlphabet, MaxCmdTextLen) \cup {Txt_foo}]
    /\ ret = <<>>

RenderOneBinding ==
    /\ pc = "call"
    /\ ret' = RenderBinding(arg.flags, arg.key, arg.binding)
    /\ pc' = "return"
    /\ UNCHANGED <<arg, pipeline_vars>>

NextBinding == RenderOneBinding

SpecBinding == InitBinding /\ [][NextBinding]_vars

\* characters with the Unicode White_Space property
RefWhitespace ==
    {" ", "\t", "\n", "\f", "\r", "U+000B", "U+0085", "U+00A0", "U+2003", "U+3000"}

RefAsciiWhitespace == {" ", "\t", "\n", "\f", "\r"}

RefModeLetter(m) == CASE m = "Insert" -> "i" [] m = "Normal" -> "n" [] m = "Visual" -> "v"

\* the key with the characters of ws removed
RefWithout(s, ws) ==
    LET keep == {i \in 1..Len(s) : s[i] \notin ws}
        nth(k) == CHOOSE i \in keep : Cardinality({j \in keep : j <= i}) = k
    IN  [k \in 1..Cardinality(keep) |-> s[nth(k)]]

RefEscapedPipes(c) ==
    Flatten([i \in 1..Len(c) |-> IF c[i] = "|" THEN <<"\\", "|">> ELSE <<c[i]>>])

\* `{m}{d} <silent> {K} {C}` with the whitespace of K being the characters of ws
RefBindingLine(m, flags, key, binding, ws) ==
    <<RefModeLetter(m)>>
    \o (IF "Recursive" \in flags THEN <<"m","a","p">> ELSE <<"n","o","r","e","m","a","p">>)
    \o <<" ","<","s","i","l","e","n","t",">"," ">>
    \o RefWithout((IF "Leader" \in flags THEN <<"<","L","E","A","D","E","R",">">> ELSE <<>>) \o key, ws)
    \o <<" ">>
    \o (IF "Command" \in flags
        THEN <<"<","C","M","D",">">> \o RefEscapedPipes(binding) \o <<"<","C","R",">">>
        ELSE RefEscapedPipes(binding))

RefBindingLines(flags, key, binding, ws) ==
    LET modes == SelectSeq(<<"Insert", "Normal", "Visual">>, LAMBDA m : m \in flags)
    IN  [i \in 1..Len(modes) |-> RefBindingLine(modes[i], flags, key, binding, ws)]

\* C3 as stated: one line per mode present, `{m}{d} <silent> {K} {C}`, K being
\* the (leader-prefixed) key stripped of all whitespace.
C3_Original_AllWhitespaceStripped ==
    pc = "return" => ret = RefBindingLines(arg.flags, arg.key, arg.binding, RefWhitespace)

\* C3 (amended): one line per mode of {Insert, Normal, Visual} present in the
\* flags, in the order i, n, v (none when no mode is present), each
\* `{m}{d} <silent> {K} {C}` where K is the leader-prefixed key stripped of
\* ASCII whitespace only (space, tab, LF, FF, CR) and C is the command with
\* every '|' replaced by `\|`, then wrapped as <CMD>...<CR> under Command; the
\* documented example gives `nmap <silent> <LEADER>k <CMD>foo<CR>`.
C3_BindingLines ==
    pc = "return" =>
        /\ ret = RefBindingLines(arg.flags, arg.key, arg.binding, RefAsciiWhitespace)
        /\ Len(ret) = Cardinality(arg.flags \cap {"Insert", "Normal", "Visual"})
        /\ (arg = [flags |-> {"Normal", "Leader", "Command", "Recursive"},
                   key |-> Txt_k, binding |-> Txt_foo])
           => ret = << <<"n","m","a","p"," ","<","s","i","l","e","n","t",">"," ",
                         "<","L","E","A","D","E","R",">","k"," ",
                         "<","C","M","D",">","f","o","o","<","C","R",">">> >>

\* a binding active in two modes whose key holds a space and a no-break space
C3_Witness ==
    /\ pc = "return"
    /\ arg = [flags |-> {"Insert", "Visual", "Leader"}, key |-> <<" ", "U+00A0">>,
              binding |-> <<"a", "|">>]
    /\ Len(ret) = 2
    /\ ret[2] = <<"v","n","o","r","e","m","a","p"," ","<","s","i","l","e","n","t",">"," ",
                  "<","L","E","A","D","E","R",">","U+00A0"," ","a","\\","|">>

----------------------------------------------------------------------------
\* Specification of the autocommand renderer alone.

\* statement texts: plain, with a single quote, with a pipe
StmtTexts == {<<"a">>, <<"e","'","q">>, <<"x","|","y">>}

LuaTexts == {<<"p","(","'","s","'",")">>, <<"g","|","h">>}

EventMaps ==
    {<<>>, Txt_ev_key1 :> Txt_ev_val1,
     (Txt_ev_key1 :> Txt_ev_val1) @@ (Txt_ev_key2 :> Txt_ev_val2)}

InitAutoCommand ==
    /\ PipelineIdle
    /\ pc = "call"
    /\ arg \in [triggers : {<<Txt_BufEnter>>, <<Txt_BufEnter, Txt_BufLeave>>},
                cmd : StringsUpTo(StmtTexts, MaxCmds),
                lua : StringsUpTo(LuaTexts, 1),
                matching : {None, Some(Txt_pattern)},
                event : EventMaps,
                silent : BOOLEAN,
                file_type : {None, Some(Txt_rust)}]
    /\ ret = <<>>

RenderOneAutoCommand ==
    /\ pc = "call"
    /\ \E order \in Perms(DOMAIN arg.event) : ret' = RenderAutoCommand(arg, order)
    /\ pc' = "return"
    /\ UNCHANGED <<arg, pipeline_vars>>

NextAutoCommand == RenderOneAutoCommand

SpecAutoCommand == InitAutoCommand /\ [][NextAutoCommand]_vars

\* the start of every line: `autocmd {triggers} {pattern} {silent}`
RefAutoHead(ac) ==
    <<"a","u","t","o","c","m","d"," ">>
    \o (IF Len(ac.triggers) = 1 THEN ac.triggers[1]
        ELSE ac.triggers[1] \o <<",">> \o ac.triggers[2])
    \o <<" ">>
    \o (IF ac.matching # <<>> THEN ac.matching[1]
        ELSE IF ac.file_type # <<>> THEN <<"<","b","u","f","f","e","r",">">> ELSE <<"*">>)
    \o <<" ">>
    \o (IF ac.silent THEN <<"s","i","l","e","n","t","!">> ELSE <<>>)

RefClause(ac, k) == <<"v",":","e","v","e","n","t",".">> \o k \o <<" ","i","s"," ","'">> \o ac.event[k] \o <<"'">>

\* the clauses joined by " && " in the order o (at most two entries are generated)
RefCondition(ac, o) ==
    IF Len(o) = 1 THEN RefClause(ac, o[1])
    ELSE RefClause(ac, o[1]) \o <<" ","&","&"," ">> \o RefClause(ac, o[2])

RefEscapedQuotes(c) ==
    Flatten([i \in 1..Len(c) |-> IF c[i] = "'" THEN <<"\\", "'">> ELSE <<c[i]>>])

\* the i-th statement of cmd ++ ["lua " + x for x in lua]
RefStatement(ac, i) ==
    IF i <= Len(ac.cmd) THEN ac.cmd[i] ELSE <<"l","u","a"," ">> \o ac.lua[i - Len(ac.cmd)]

\* C5: one line per element of cmd ++ lua-statements, in that order; every
\* line starts with `autocmd {triggers} {pattern} {silent}`; with an empty
\* event map it ends with the statement unchanged, otherwise with
\* `if {condition} | execute '{stmt}' | endif`, the condition joining one
\* clause per event entry and every single quote of the statement escaped.
C5_AutoCommandLines ==
    pc = "return" =>
        /\ Len(ret) = Len(arg.cmd) + Len(arg.lua)
        /\ DOMAIN arg.event = {} =>
               \A i \in 1..Len(ret) : ret[i] = RefAutoHead(arg) \o <<" ">> \o RefStatement(arg, i)
        /\ DOMAIN arg.event # {} =>
               \E o \in Perms(DOMAIN arg.event) :
                   \A i \in 1..Len(ret) :
                       ret[i] = RefAutoHead(arg) \o <<" ","i","f"," ">> \o RefCondition(arg, o)
                                \o <<" ","|"," ","e","x","e","c","u","t","e"," ","'">>
                                \o RefEscapedQuotes(RefStatement(arg, i))
                                \o <<"'"," ","|"," ","e","n","d","i","f">>

\* two triggers and two event entries, a cmd and a lua statement with quotes
C5_Witness ==
    /\ pc = "return"
    /\ Len(arg.triggers) = 2 /\ Cardinality(DOMAIN arg.event) = 2
    /\ arg.cmd = << <<"e","'","q">> >> /\ arg.lua = << <<"p","(","'","s","'",")">> >>
    /\ arg.matching = None /\ arg.file_type = Some(Txt_rust) /\ ~arg.silent
    /\ Len(ret) = 2
    /\ ret[2] = <<"a","u","t","o","c","m","d"," ","B","E",",","B","L"," ",
                  "<","b","u","f","f","e","r",">"," "," ","i","f"," ",
                  "v",":","e","v","e","n","t",".","r","g"," ","i","s"," ","'","+","'",
                  " ","&","&"," ",
                  "v",":","e","v","e","n","t",".","o","p"," ","i","s"," ","'","y","'",
                  " ","|"," ","e","x","e","c","u","t","e"," ","'",
                  "l","u","a"," ","p","(","\\","'","s","\\","'",")",
                  "'"," ","|"," ","e","n","d","i","f">>

----------------------------------------------------------------------------
\* Properties of the pipeline.

\* the lines and the history describe the same buckets, line for line
HistoryMatches ==
    /\ DOMAIN origin = DOMAIN vimscript
    /\ \A s \in DOMAIN vimscript : Len(origin[s]) = Len(vimscript[s])

StartsWith(line, t) == Len(line) >= Len(t) /\ SubSeq(line, 1, Len(t)) = t

Embeds(line, t) == \E i \in 0..(Len(line) - Len(t)) : SubSeq(line, i + 1, i + Len(t)) = t

\* C4 as stated: every bucket line that embeds an input command (a binding's
\* command, an autocommand's cmd or lua statement) shows each '|' of it as `\|`.
C4_Original_PipesEscapedEverywhere ==
    HistoryMatches /\
    \A s \in DOMAIN origin : \A i \in 1..Len(origin[s]) :
        origin[s][i].cmd # None =>
            \/ Embeds(vimscript[s][i], RefEscapedPipes(origin[s][i].cmd[1]))
            \/ Embeds(vimscript[s][i], RefEscapedPipes(RefEscapedQuotes(origin[s][i].cmd[1])))

\* C4 (amended): every key binding line shows each '|' of the binding's
\* command as `\|`; an autocommand line embeds its cmd or lua statement with
\* the '|' characters unchanged (only single quotes are escaped, in the
\* conditional form).
C4_PipesEscapedInBindings ==
    HistoryMatches /\
    \A s \in DOMAIN origin : \A i \in 1..Len(origin[s]) :
        /\ origin[s][i].kind = "binding" =>
               \/ Embeds(vimscript[s][i], <<" ">> \o RefEscapedPipes(origin[s][i].cmd[1]))
               \/ Embeds(vimscript[s][i], <<">">> \o RefEscapedPipes(origin[s][i].cmd[1]) \o <<"<">>)
        /\ origin[s][i].kind = "autocmd" =>
               \/ Embeds(vimscript[s][i], origin[s][i].cmd[1])
               \/ Embeds(vimscript[s][i], RefEscapedQuotes(origin[s][i].cmd[1]))

\* a binding line and two autocommand lines whose commands hold a pipe are in the buckets
C4_Witness ==
    /\ pc = "done" /\ HistoryMatches
    /\ \E s \in DOMAIN origin : \E i \in 1..Len(origin[s]) :
           /\ origin[s][i].kind = "binding" /\ origin[s][i].cmd = Some(<<"y","|","z">>)
           /\ Embeds(vimscript[s][i], <<"y","\\","|","z">>)
    /\ \E i \in 1..Len(origin[None]) :
           /\ origin[None][i].kind = "autocmd" /\ origin[None][i].cmd = Some(<<"x","|","y">>)
           /\ Embeds(vimscript[None][i], <<" ","x","|","y">>)

IsPrefix(a, b) == Len(a) <= Len(b) /\ SubSeq(b, 1, Len(a)) = a

\* in every bucket the lines of an earlier document precede those of a later one
DocumentOrder ==
    /\ HistoryMatches
    /\ \A s \in DOMAIN origin : \A i, j \in 1..Len(origin[s]) :
           i < j => origin[s][i].doc <= origin[s][j].doc

\* a step never removes, replaces or reorders the lines a bucket holds
AppendOnly ==
    \A s \in DOMAIN vimscript :
        s \in DOMAIN vimscript' /\ IsPrefix(vimscript[s], vimscript'[s])

\* C6: in every bucket, every line a document contributed precedes every line
\* of any later document, and a step only appends to the buckets: lines
\* already in a bucket are never removed, replaced or reordered.
C6_DocumentOrderPreserved == [][AppendOnly /\ DocumentOrder']_vars

\* two documents with the same rust groups: one rust bucket, first document first
C6_Witness ==
    /\ pc = "done" /\ Len(files) = 2
    /\ files[1].body = Doc_groups /\ files[2].body = Doc_groups
    /\ DOMAIN vimscript = {None, Some(Txt_rust)}
    /\ [i \in 1..Len(origin[Some(Txt_rust)]) |-> origin[Some(Txt_rust)][i].doc] = <<1, 1, 2, 2>>
    /\ Len(vimscript[Some(Txt_rust)]) = 4

\* the files of both executions, as (path, contents) pairs
WrittenFiles ==
    {[path |-> writes[i].path, contents |-> writes[i].contents] : i \in 1..Len(writes)}

\* C7: a second execution on the same directory writes, for every scope, the
\* payload the first execution wrote.
C7_RerunByteIdentical == (run = 2 /\ pc = "done") => WrittenFiles = prev

\* whether the load loop reads the file as a document
RefIsConfigFile(f) ==
    /\ f.ext # None
    /\ f.ext[1] \in {<<"y","a","m","l">>, <<"Y","M","L">>, <<"t","o","m","l">>}

\* a malformed document, or one with a flag key the grammar rejects
RefBadFile(f) ==
    /\ RefIsConfigFile(f)
    /\ \/ f.body.kind = "malformed"
       \/ \E k \in 1..Len(f.body.keys) : RefOffending(f.body.keys[k][1]) # {}

\* C8: with a malformed document or a bad flag key anywhere among the
\* inputs, the run never gets past loading: it fails when it reads that
\* document, no bucket is rendered and no output file is written.
C8_FailsBeforeRendering ==
    /\ (\E i \in 1..Len(files) : RefBadFile(files[i])) =>
           /\ pc \in {"load", "failed"}
           /\ DOMAIN vimscript = {} /\ writes = <<>>
    /\ (\E i \in 1..(idx - 1) : RefBadFile(files[i])) => pc = "failed"
    /\ pc = "failed" =>
           /\ RefBadFile(files[idx - 1])
           /\ DOMAIN vimscript = {} /\ writes = <<>>

\* the run failed on a bad flag key of the second file, after loading the first
C8_Witness ==
    /\ pc = "failed" /\ Len(files) = 2 /\ Len(configs) = 1
    /\ files[1].body = Doc_rich /\ files[2].body = Doc_unsupported
    /\ DOMAIN vimscript = {} /\ writes = <<>>

RefRank(kind) ==
    CASE kind = "header" -> 0 [] kind = "marker" -> 1 [] kind \in {"label", "binding"} -> 2
      [] kind = "autocmd" -> 3 [] kind = "set" -> 4 [] kind = "set_value" -> 5
      [] kind = "let" -> 6

\* the kinds of the lines document d has in bucket s, in bucket order
KindsOf(s, d) ==
    LET tags == SelectSeq(origin[s], LAMBDA tg : tg.doc = d)
    IN  [i \in 1..Len(tags) |-> tags[i].kind]

CountKind(ks, k) == Cardinality({i \in 1..Len(ks) : ks[i] = k})

RECURSIVE RefSum(_)
RefSum(ns) == IF ns = <<>> THEN 0 ELSE Head(ns) + RefSum(Tail(ns))

\* the text of a line agrees with the step recorded for it
RefKindText(line, tg) ==
    CASE tg.kind = "header" ->
             line = <<"\n","\n","\""," ","F","i","l","e",":"," ">> \o configs[tg.doc].filename
      [] tg.kind = "marker" ->
             line = <<"\n","\""," ","K","e","y","b","i","n","d","i","n","g","s",":">>
      [] tg.kind = "label" -> StartsWith(line, <<"\""," ">>)
      [] tg.kind = "binding" ->
             \E m \in {"i", "n", "v"} : \E d \in {<<"m","a","p">>, <<"n","o","r","e","m","a","p">>} :
                 StartsWith(line, <<m>> \o d \o <<" ","<","s","i","l","e","n","t",">"," ">>)
      [] tg.kind = "autocmd" -> StartsWith(line, <<"a","u","t","o","c","m","d"," ">>)
      [] tg.kind \in {"set", "set_value"} -> StartsWith(line, <<"s","e","t"," ">>)
      [] tg.kind = "let" -> StartsWith(line, <<"l","e","t"," ">>)

\* C9: a document's lines in the global bucket are its header, its
\* Keybindings marker, the lines of its groups without file type, its
\* autocommand lines, its set lines, its set_value lines and its let lines,
\* in this order; autocommand, set, set_value and let lines are only in the
\* global bucket; a file-type bucket holds only label comments and binding
\* lines of groups with that file type.
C9_ContributionOrder ==
    /\ HistoryMatches
    /\ \A s \in DOMAIN origin : \A i \in 1..Len(origin[s]) :
           /\ RefKindText(vimscript[s][i], origin[s][i])
           /\ s # None => origin[s][i].kind \in {"label", "binding"}
           /\ origin[s][i].kind \in {"label", "binding"} => origin[s][i].ft = s
    /\ None \in DOMAIN origin =>
           \A d \in 1..Len(configs) :
               LET ks == KindsOf(None, d)
                   c  == configs[d].config
               IN  /\ \A i, j \in 1..Len(ks) : i < j => RefRank(ks[i]) <= RefRank(ks[j])
                   /\ ks # <<>> =>
                          /\ CountKind(ks, "header") = 1
                          /\ Len(ks) >= 2 /\ ks[2] = "marker" /\ CountKind(ks, "marker") = 1
                   \* once the document is finished, all of its entries are there
                   /\ (cfg > d) =>
                          /\ ks # <<>>
                          /\ CountKind(ks, "autocmd") =
                                 RefSum([a \in 1..Len(c.auto_commands) |->
                                            Len(c.auto_commands[a].cmd) + Len(c.auto_commands[a].lua)])
                          /\ CountKind(ks, "set") = Len(c.set)
                          /\ CountKind(ks, "set_value") = Cardinality(DOMAIN c.set_value)
                          /\ CountKind(ks, "let") = Cardinality(DOMAIN c.let)

\* a finished document with all seven kinds of line in the global bucket, whose
\* autocommand has a file type, and a rust bucket with a label and two bindings
C9_Witness ==
    /\ pc = "done" /\ Len(files) = 1 /\ files[1].body = Doc_rich
    /\ KindsOf(None, 1) = <<"header", "marker", "label", "binding", "autocmd", "autocmd",
                            "set", "set_value", "set_value", "let">>
    /\ KindsOf(Some(Txt_rust), 1) = <<"label", "binding", "binding">>

\* the scopes the loaded documents encounter: the global one if a document
\* was loaded, and the file type of every key group
RefExpectedScopes ==
    LET loaded == {i \in 1..Len(files) : RefIsConfigFile(files[i]) /\ files[i].body.kind = "doc"}
    IN  (IF loaded = {} THEN {} ELSE {<<>>})
        \cup UNION {{RefFileType(files[i].body.keys[k][1]) : k \in 1..Len(files[i].body.keys)} :
                        i \in loaded}

RECURSIVE RefJoinLines(_)
\* the lines separated by line breaks, built from the last line backwards
RefJoinLines(lines) ==
    IF lines = <<>> THEN <<>>
    ELSE IF Len(lines) = 1 THEN lines[1]
    ELSE RefJoinLines(SubSeq(lines, 1, Len(lines) - 1)) \o <<"\n">> \o lines[Len(lines)]

RefPath(scope) ==
    IF scope = <<>> THEN <<"p","l","u","g","i","n","/","c","o","n","f","i","g",".","v","i","m">>
    ELSE <<"f","t","p","l","u","g","i","n","/">> \o scope[1]
         \o <<"_","c","o","n","f","i","g",".","v","i","m">>

\* C10: when the run ends, exactly one payload has been written per
\* encountered scope (the global scope iff a document was loaded, and the file
\* type of every key group, also of a group that rendered no line), to a path
\* of its own, and each payload is all the lines pushed to that bucket, joined
\* by line breaks: no bucket was reset, split or written twice.
C10_OnePayloadPerScope ==
    /\ HistoryMatches
    /\ \A i, j \in 1..Len(writes) :
           i # j => writes[i].scope # writes[j].scope /\ writes[i].path # writes[j].path
    /\ \A i \in 1..Len(writes) :
           /\ writes[i].scope \in DOMAIN vimscript
           /\ writes[i].path = RefPath(writes[i].scope)
           /\ writes[i].contents = RefJoinLines(vimscript[writes[i].scope])
    /\ pc \in {"emit", "done"} => DOMAIN vimscript = RefExpectedScopes
    /\ pc = "done" => {writes[i].scope : i \in 1..Len(writes)} = RefExpectedScopes

\* the bucket of a group without mode and label is written with an empty payload
C10_Witness ==
    /\ pc = "done" /\ Len(files) = 2
    /\ files[1].body = Doc_quiet /\ files[2].body = Doc_groups
    /\ {writes[i].scope : i \in 1..Len(writes)} = {None, Some(<<"x">>), Some(Txt_rust)}
    /\ \E i \in 1..Len(writes) : writes[i].scope = Some(<<"x">>) /\ writes[i].contents = <<>>

====
